---------------------------- MODULE Spec2Model ----------------------------
(***************************************************************************)
(* A model of src/model.py: the ticker resolver (get_tickers_from_api),    *)
(* the performance aggregator (compare_stocks) and the report-generation   *)
(* pipeline run by the "Generate Investment Report" button.                *)
(*                                                                         *)
(* Strings that the code cuts up (the comma-separated input) are sequences *)
(* of one-character strings.  Everything the program reads from outside    *)
(* (HTTP lookups, yfinance, the reasoning service) is an input chosen by   *)
(* the environment.                                                        *)
(***************************************************************************)
EXTENDS Integers, Sequences, FiniteSets, TLC

\* ------------------------------------------------------------ bounds ----
\* Longest comma-separated argument given to get_tickers_from_api.
MaxInputLen == 3
\* Most closing prices in one fetched history.
MaxSeriesLen == 3
\* Most symbols handed to compare_stocks on its own.
MaxSymbols == 2
\* Most company names typed into the form in a pipeline run.
MaxNames == 2

\* ------------------------------------------------------------ values ----
\* Python's None (a ticker that could not be resolved, an absent response).
None == "<None>"
Tickers == {"AAPL", "TSLA"}
Chars == {"a", " ", ","}
Prices == {100, 110, 121}

\* All sequences over S of length at most n.
SeqsUpTo(S, n) == UNION {[1..k -> S] : k \in 0..n}

Range(s) == {s[k] : k \in 1..Len(s)}

\* ------------------------------------------------------ str methods ----
\* str.split(","): always at least one piece; k-1 commas give k pieces.
RECURSIVE Split(_)
Split(s) ==
    IF \A k \in 1..Len(s) : s[k] # ","
    THEN <<s>>
    ELSE LET c == CHOOSE k \in 1..Len(s) :
                      s[k] = "," /\ \A j \in 1..(k-1) : s[j] # ","
         IN  <<SubSeq(s, 1, c - 1)>> \o Split(SubSeq(s, c + 1, Len(s)))

\* str.strip(): leading and trailing whitespace removed.
RECURSIVE Strip(_)
Strip(s) ==
    IF s = <<>> THEN s
    ELSE IF s[1] = " " THEN Strip(Tail(s))
    ELSE IF s[Len(s)] = " " THEN Strip(SubSeq(s, 1, Len(s) - 1))
    ELSE s

\* [name.strip() for name in text.split(",")]
SplitStrip(text) == LET parts == Split(text)
                    IN  [k \in 1..Len(parts) |-> Strip(parts[k])]

\* ", ".join(names)
RECURSIVE Join(_)
Join(names) ==
    IF names = <<>> THEN <<>>
    ELSE IF Len(names) = 1 THEN names[1]
    ELSE names[1] \o <<",", " ">> \o Join(Tail(names))

\* ------------------------------------------------- the ticker resolver ----
\* What requests.get / response.json() can give for one name: an exception
\* ("raise"), or a response with a status code and a decoded body, a list of
\* match objects.  A match without a "symbol" field has symbol None, which is
\* what data[0].get("symbol") returns for it.
Match(sym) == [symbol |-> sym]
Response(code, body) == [kind |-> "response", status_code |-> code, data |-> body]
Raised == [kind |-> "raise", status_code |-> 0, data |-> <<>>]
LookupResponses ==
    { Raised,
      Response(200, <<>>),
      Response(200, <<Match("AAPL")>>),
      Response(200, <<Match("TSLA"), Match("AAPL")>>),
      Response(200, <<Match(None)>>),
      Response(404, <<Match("AAPL")>>) }

\* Mutant: the status code is not looked at.
LookupEntry_NoStatusCheck(resp) ==
    IF resp.kind = "raise" THEN None
    ELSE IF resp.data # <<>> THEN resp.data[1].symbol
    ELSE None

\* One iteration of the loop: the entry appended for one name.
LookupEntry(resp) ==
    IF resp.kind = "raise" THEN None
    ELSE IF resp.status_code = 200
         THEN IF resp.data # <<>> THEN resp.data[1].symbol ELSE None
         ELSE None

\* The loop over company_list, appending one entry per name.
RECURSIVE ResolveLoop(_, _, _, _)
ResolveLoop(company_list, responses, k, tickers) ==
    IF k > Len(company_list) THEN tickers
    ELSE ResolveLoop(company_list, responses, k + 1,
                     Append(tickers, LookupEntry(responses[k])))

get_tickers_from_api(company_names_arg, responses) ==
    ResolveLoop(SplitStrip(company_names_arg), responses, 1, <<>>)

\* --------------------------------------------- the performance score ----
\* Exact fractions <<numerator, denominator>>, denominator > 0, in lowest
\* terms.  NaN is what pct_change gives for the first row.
NaN == <<0, 0>>
Abs(x) == IF x < 0 THEN -x ELSE x
RECURSIVE GCD(_, _)
GCD(a, b) == IF b = 0 THEN a ELSE GCD(b, a % b)
Frac(n, d) == LET g == GCD(Abs(n), d) IN <<n \div g, d \div g>>
FracAdd(x, y) == Frac(x[1] * y[2] + y[1] * x[2], x[2] * y[2])
Zero == <<0, 1>>

\* Series.pct_change(): row k is close[k] / close[k-1] - 1, the first row NaN.
pct_change(close) ==
    [k \in 1..Len(close) |->
        IF k = 1 THEN NaN ELSE Frac(close[k] - close[k-1], close[k-1])]

\* Series.sum(): NaN rows are skipped; the sum of no rows is 0.
RECURSIVE sum(_)
sum(rows) ==
    IF rows = <<>> THEN Zero
    ELSE IF rows[Len(rows)] = NaN THEN sum(SubSeq(rows, 1, Len(rows) - 1))
    ELSE FracAdd(sum(SubSeq(rows, 1, Len(rows) - 1)), rows[Len(rows)])

\* Mutant: the compounded return close[n] / close[1] - 1.
Score_Compounded(close) ==
    IF Len(close) < 2 THEN Zero
    ELSE Frac(close[Len(close)] - close[1], close[1])

\* hist['Close'].pct_change().sum()
Score(close) == sum(pct_change(close))

\* A dict as the sequence of its <<key, value>> items in insertion order.
DictKeys(d) == [k \in 1..Len(d) |-> d[k][1]]
DictHas(d, key) == \E k \in 1..Len(d) : d[k][1] = key
DictGet(d, key) == d[CHOOSE k \in 1..Len(d) : d[k][1] = key][2]
\* d[key] = value: a new key goes last, a known key keeps its place.
DictSet(d, key, value) ==
    IF DictHas(d, key)
    THEN [k \in 1..Len(d) |-> IF d[k][1] = key THEN <<key, value>> ELSE d[k]]
    ELSE Append(d, <<key, value>>)

\* What stock.history(period="6mo") can give: an exception, or a frame whose
\* Close column is the closing prices in date order (an empty frame has none).
Frame(close) == [kind |-> "frame", close |-> close]
HistRaised == [kind |-> "raise", close |-> <<>>]
Histories == SeqsUpTo(Prices, MaxSeriesLen)
Fetches == {Frame(h) : h \in Histories} \cup {HistRaised}

\* Mutant: a history with fewer than two rows is skipped.
SkipHistory_FewerThanTwo(hist) == hist.kind = "raise" \/ Len(hist.close) < 2

\* Whether compare_stocks skips the symbol: the fetch raised, or hist.empty.
SkipHistory(hist) == hist.kind = "raise" \/ hist.close = <<>>

\* The loop of compare_stocks over symbols; fetched[k] is what the k-th
\* history call gave.
RECURSIVE CompareLoop(_, _, _, _)
CompareLoop(symbols_arg, fetched, k, data) ==
    IF k > Len(symbols_arg) THEN data
    ELSE CompareLoop(symbols_arg, fetched, k + 1,
             IF SkipHistory(fetched[k]) THEN data
             ELSE DictSet(data, symbols_arg[k], Score(fetched[k].close)))

compare_stocks(symbols_arg, fetched) == CompareLoop(symbols_arg, fetched, 1, <<>>)

\* What compare_stocks puts on the page: an st.warning per symbol whose frame
\* is empty, an st.error per symbol whose history call raised.
Notices(symbols_arg, fetched) ==
    { <<IF fetched[k].kind = "raise" THEN "error" ELSE "warning", symbols_arg[k]>> :
         k \in {j \in 1..Len(symbols_arg) : SkipHistory(fetched[j])} }

\* ------------------------------------------------------------- state ----
VARIABLES
    \* get_tickers_from_api called on its own
    api_company_names,   \* its argument, the comma-separated names
    api_responses,       \* what the lookup of each name gives
    api_tickers,         \* the list it returns
    api_pc,              \* "start" | "returned"
    \* compare_stocks called on its own
    cmp_symbols,         \* its argument
    cmp_fetched,         \* what the history call of each symbol gives
    cmp_data,            \* the dict it returns
    cmp_pc,              \* "start" | "returned"
    \* the Streamlit script and the button handler
    input_symbols,       \* the text of the sidebar input
    company_names,       \* the names parsed from it
    pc,                  \* where the script run is
    tickers,             \* get_tickers_from_api's result
    valid_tickers,       \* tickers without None: the symbols of the run
    idx,                 \* position of the loop over symbols
    hist_log,            \* per compare_stocks call, what each history call gave
    performance_data,    \* the last compare_stocks result
    news,                \* the last get_company_news result
    market_analysis,     \* locals of get_final_investment_report
    company_analyses,
    stock_recommendations,
    final_report,
    rec_market_analysis, \* locals of get_stock_recommendations
    rec_data,
    strategist_prompt,   \* what stock_strategist.run was given
    team_lead_prompt,    \* what team_lead.run was given
    calls,               \* the agent runs so far, in order
    touched,             \* every symbol handed to yfinance or to an agent
    screen,              \* what the page shows
    failure              \* the exception that ended the run, "" if none

apiVars == <<api_company_names, api_responses, api_tickers, api_pc>>
cmpVars == <<cmp_symbols, cmp_fetched, cmp_data, cmp_pc>>
runVars == <<input_symbols, company_names, pc, tickers, valid_tickers, idx,
             hist_log, performance_data, news, market_analysis,
             company_analyses, stock_recommendations, final_report,
             rec_market_analysis, rec_data, strategist_prompt,
             team_lead_prompt, calls, touched, screen, failure>>
vars == <<apiVars, cmpVars, runVars>>

\* A narrative: a fixed message of the program, or the content of the
\* response of one agent run, named by that run's place in calls.
Unset == [kind |-> "unset", text |-> "", call |-> 0]
NoValidStockData ==
    [kind |-> "fixed", text |-> "No valid stock data found for the given symbols.",
     call |-> 0]
NoAnalysisReport ==
    [kind |-> "fixed", text |-> "No analysis report generated.", call |-> 0]
Content(k) == [kind |-> "content", text |-> "", call |-> k]

BlankScreen == [warning |-> "", notices |-> {}, report |-> Unset, chart |-> FALSE,
                info |-> FALSE, exception |-> FALSE]

ApiIdle ==
    /\ api_company_names = <<>>
    /\ api_responses = <<>>
    /\ api_tickers = <<>>
    /\ api_pc = "off"

CmpIdle ==
    /\ cmp_symbols = <<>>
    /\ cmp_fetched = <<>>
    /\ cmp_data = <<>>
    /\ cmp_pc = "off"

RunIdle ==
    /\ input_symbols = <<>>
    /\ company_names = <<>>
    /\ pc = "off"
    /\ tickers = <<>>
    /\ valid_tickers = <<>>
    /\ idx = 0
    /\ hist_log = <<>>
    /\ performance_data = <<>>
    /\ news = <<>>
    /\ market_analysis = Unset
    /\ company_analyses = <<>>
    /\ stock_recommendations = Unset
    /\ final_report = Unset
    /\ rec_market_analysis = Unset
    /\ rec_data = <<>>
    /\ strategist_prompt = <<>>
    /\ team_lead_prompt = <<>>
    /\ calls = <<>>
    /\ touched = {}
    /\ screen = BlankScreen
    /\ failure = ""

\* ------------------------------ get_tickers_from_api on its own ----
ApiInit ==
    /\ api_company_names \in SeqsUpTo(Chars, MaxInputLen)
    /\ api_responses \in [1..Len(Split(api_company_names)) -> LookupResponses]
    /\ api_tickers = <<>>
    /\ api_pc = "start"
    /\ CmpIdle /\ RunIdle

ApiCall ==
    /\ api_pc = "start"
    /\ api_tickers' = get_tickers_from_api(api_company_names, api_responses)
    /\ api_pc' = "returned"
    /\ UNCHANGED <<api_company_names, api_responses, cmpVars, runVars>>

ApiNext == ApiCall
SpecResolver == ApiInit /\ [][ApiNext]_vars

\* ------------------------------------ compare_stocks on its own ----
\* Each ticker has one history here: every call for it gives the same.
CmpInit ==
    /\ cmp_symbols \in SeqsUpTo(Tickers, MaxSymbols)
    /\ \E world \in [Tickers -> Fetches] :
          cmp_fetched = [k \in 1..Len(cmp_symbols) |-> world[cmp_symbols[k]]]
    /\ cmp_data = <<>>
    /\ cmp_pc = "start"
    /\ ApiIdle /\ RunIdle

CmpCall ==
    /\ cmp_pc = "start"
    /\ cmp_data' = compare_stocks(cmp_symbols, cmp_fetched)
    /\ cmp_pc' = "returned"
    /\ UNCHANGED <<cmp_symbols, cmp_fetched, apiVars, runVars>>

CmpNext == CmpCall
SpecCompare == CmpInit /\ [][CmpNext]_vars

\* ------------------------------------------- the reasoning agents ----
\* What Agent.run can give: a response object with content, a falsy value
\* (None), or an exception.
AgentResponses == {"content", "none", "raise"}
Call(agent, symbol, resp) == [agent |-> agent, symbol |-> symbol, response |-> resp]

\* The outcome of a function that may call an agent: whether it did, the
\* exception that left it ("" if it returned) and the value it returned.
Outcome(called, exc, value) == [called |-> called, failure |-> exc, value |-> value]

\* response.content: an AttributeError on None.
\* Mutant: a falsy response gives a fixed message instead.
ContentOf_Defensive(called, resp, k) ==
    IF resp = "raise" THEN Outcome(called, "agent raised", Unset)
    ELSE IF resp = "none" THEN Outcome(called, "", NoAnalysisReport)
    ELSE Outcome(called, "", Content(k))

ContentOf(called, resp, k) ==
    IF resp = "raise" THEN Outcome(called, "agent raised", Unset)
    ELSE IF resp = "none" THEN Outcome(called, "None has no content", Unset)
    ELSE Outcome(called, "", Content(k))

\* Mutant: the empty performance dict is not checked.
get_market_analysis_NoEmptyCheck(performance, resp, k) ==
    IF resp = "raise" THEN Outcome(TRUE, "agent raised", Unset)
    ELSE IF resp = "none" THEN Outcome(TRUE, "", NoAnalysisReport)
    ELSE Outcome(TRUE, "", Content(k))

\* Mutant: an empty performance dict is an error.
get_market_analysis_RaiseOnEmpty(performance, resp, k) ==
    IF performance = <<>> THEN Outcome(FALSE, "no stock data", Unset)
    ELSE IF resp = "raise" THEN Outcome(TRUE, "agent raised", Unset)
    ELSE IF resp = "none" THEN Outcome(TRUE, "", NoAnalysisReport)
    ELSE Outcome(TRUE, "", Content(k))

\* get_market_analysis after its compare_stocks call gave performance; resp
\* is what market_analyst.run gives if it is run, as the k-th agent run.
get_market_analysis(performance, resp, k) ==
    IF performance = <<>> THEN Outcome(FALSE, "", NoValidStockData)
    ELSE IF resp = "raise" THEN Outcome(TRUE, "agent raised", Unset)
    ELSE IF resp = "none" THEN Outcome(TRUE, "", NoAnalysisReport)
    ELSE Outcome(TRUE, "", Content(k))

\* What stock.info and stock.news can give.
InfoFetches == {"profile", "raise"}
Feed(kind, items) == [kind |-> kind, items |-> items]
NewsFeeds == { Feed("list", <<>>),
               Feed("list", <<"n1", "n2", "n3", "n4", "n5", "n6">>),
               Feed("AttributeError", <<>>),
               Feed("raise", <<>>) }

\* get_company_news: the first 5 items; an AttributeError gives [].
get_company_news(feed) ==
    IF feed.kind = "AttributeError" THEN Outcome(FALSE, "", <<>>)
    ELSE IF feed.kind = "raise" THEN Outcome(FALSE, "news fetch raised", <<>>)
    ELSE Outcome(FALSE, "", SubSeq(feed.items, 1, IF Len(feed.items) < 5
                                                  THEN Len(feed.items) ELSE 5))

\* Mutant: a failed profile fetch gives the "N/A" profile.
get_company_analysis_ProfileSwallowed(info, feed, resp, k) ==
    IF get_company_news(feed).failure # ""
    THEN Outcome(FALSE, get_company_news(feed).failure, Unset)
    ELSE ContentOf(TRUE, resp, k)

\* get_company_analysis: the profile, the news, then company_researcher.run
\* as the k-th agent run.
get_company_analysis(info, feed, resp, k) ==
    IF info = "raise" THEN Outcome(FALSE, "profile fetch raised", Unset)
    ELSE IF get_company_news(feed).failure # ""
         THEN Outcome(FALSE, get_company_news(feed).failure, Unset)
         ELSE ContentOf(TRUE, resp, k)

\* Mutant: the tickers are used as resolved.
FilterNone_Unfiltered(resolved) == resolved

\* [ticker for ticker in tickers if ticker is not None]
FilterNone(resolved) == SelectSeq(resolved, LAMBDA t : t # None)

\* ----------------------------------------------- the script run ----
\* What the lookups and the history calls give during a run.
RunLookups == { Raised, Response(200, <<>>),
                Response(200, <<Match("AAPL")>>), Response(200, <<Match("TSLA")>>) }
RunFetches == { HistRaised, Frame(<<>>), Frame(<<100, 110>>) }
InputTexts == { Join([k \in 1..n |-> <<"a">>]) : n \in 1..MaxNames }

RunInit ==
    /\ input_symbols \in InputTexts
    /\ company_names = SplitStrip(input_symbols)
    /\ pc = "idle"
    /\ tickers = <<>>
    /\ valid_tickers = <<>>
    /\ idx = 0
    /\ hist_log = <<>>
    /\ performance_data = <<>>
    /\ news = <<>>
    /\ market_analysis = Unset
    /\ company_analyses = <<>>
    /\ stock_recommendations = Unset
    /\ final_report = Unset
    /\ rec_market_analysis = Unset
    /\ rec_data = <<>>
    /\ strategist_prompt = <<>>
    /\ team_lead_prompt = <<>>
    /\ calls = <<>>
    /\ touched = {}
    /\ screen = BlankScreen
    /\ failure = ""
    /\ ApiIdle /\ CmpIdle

\* An exception nobody catches: Streamlit shows it and the script run ends.
Abort(exc, shown) ==
    /\ pc' = "aborted"
    /\ failure' = exc
    /\ screen' = [shown EXCEPT !.exception = TRUE]

\* The button is pressed: resolve, filter, and start the report or warn.
\* str.split never gives an empty list, so company_names is never empty and
\* the "Please enter at least one company name." branch is never taken.
Button ==
    /\ pc = "idle"
    /\ IF company_names = <<>>
       THEN /\ screen' = [screen EXCEPT
                              !.warning = "Please enter at least one company name."]
            /\ pc' = "finished"
            /\ UNCHANGED <<tickers, valid_tickers, idx>>
       ELSE \E responses \in [1..Len(Split(Join(company_names))) -> RunLookups] :
              /\ tickers' = get_tickers_from_api(Join(company_names), responses)
              /\ valid_tickers' = FilterNone(tickers')
              /\ IF valid_tickers' = <<>>
                 THEN /\ screen' = [screen EXCEPT
                           !.warning = "No valid tickers found for the given company names.",
                           !.info = TRUE]
                      /\ pc' = "finished"
                      /\ idx' = idx
                 ELSE /\ pc' = "market"
                      /\ idx' = 1
                      /\ screen' = screen
    /\ UNCHANGED <<input_symbols, company_names, hist_log, performance_data, news,
                   market_analysis, company_analyses, stock_recommendations,
                   final_report, rec_market_analysis, rec_data, strategist_prompt,
                   team_lead_prompt, calls, touched, failure, apiVars, cmpVars>>

\* get_market_analysis(symbols), called by get_final_investment_report
\* (pc = "market") and again by get_stock_recommendations (pc = "rec_market").
MarketAnalysis ==
    /\ pc \in {"market", "rec_market"}
    /\ \E fetched \in [1..Len(valid_tickers) -> RunFetches], resp \in AgentResponses :
         LET perf == compare_stocks(valid_tickers, fetched)
             out  == get_market_analysis(perf, resp, Len(calls) + 1)
             shown == [screen EXCEPT !.notices = @ \cup Notices(valid_tickers, fetched)]
         IN  /\ hist_log' = Append(hist_log, fetched)
             /\ performance_data' = perf
             /\ touched' = touched \cup Range(valid_tickers)
             /\ calls' = IF out.called
                         THEN Append(calls, Call("market_analyst", "", resp))
                         ELSE calls
             /\ IF out.failure # ""
                THEN /\ Abort(out.failure, shown)
                     /\ UNCHANGED <<market_analysis, rec_market_analysis, idx>>
                ELSE /\ IF pc = "market"
                        THEN /\ market_analysis' = out.value
                             /\ rec_market_analysis' = rec_market_analysis
                             /\ pc' = "company"
                        ELSE /\ rec_market_analysis' = out.value
                             /\ market_analysis' = market_analysis
                             /\ pc' = "rec_company"
                     /\ idx' = 1
                     /\ screen' = shown
                     /\ failure' = failure
    /\ UNCHANGED <<input_symbols, company_names, tickers, valid_tickers, news,
                   company_analyses, stock_recommendations, final_report, rec_data,
                   strategist_prompt, team_lead_prompt, apiVars, cmpVars>>

\* get_company_analysis(symbols[idx]): one turn of the list comprehension of
\* get_final_investment_report (pc = "company") or of the loop of
\* get_stock_recommendations (pc = "rec_company").
CompanyAnalysis ==
    /\ pc \in {"company", "rec_company"}
    /\ \E info \in InfoFetches, feed \in NewsFeeds, resp \in AgentResponses :
         LET symbol == valid_tickers[idx]
             out    == get_company_analysis(info, feed, resp, Len(calls) + 1)
             last   == idx = Len(valid_tickers)
         IN  /\ touched' = touched \cup {symbol}
             /\ news' = IF info = "raise" THEN news ELSE get_company_news(feed).value
             /\ calls' = IF out.called
                         THEN Append(calls, Call("company_researcher", symbol, resp))
                         ELSE calls
             /\ IF out.failure # ""
                THEN /\ Abort(out.failure, screen)
                     /\ UNCHANGED <<company_analyses, rec_data, idx>>
                ELSE /\ IF pc = "company"
                        THEN /\ company_analyses' = Append(company_analyses, out.value)
                             /\ rec_data' = rec_data
                             /\ pc' = IF last THEN "rec_market" ELSE pc
                        ELSE /\ rec_data' = DictSet(rec_data, symbol, out.value)
                             /\ company_analyses' = company_analyses
                             /\ pc' = IF last THEN "strategist" ELSE pc
                     /\ idx' = IF last THEN 1 ELSE idx + 1
                     /\ UNCHANGED <<screen, failure>>
    /\ UNCHANGED <<input_symbols, company_names, tickers, valid_tickers, hist_log,
                   performance_data, market_analysis, stock_recommendations,
                   final_report, rec_market_analysis, strategist_prompt,
                   team_lead_prompt, apiVars, cmpVars>>

\* stock_strategist.run at the end of get_stock_recommendations.
Strategist ==
    /\ pc = "strategist"
    /\ \E resp \in AgentResponses :
         LET out == ContentOf(TRUE, resp, Len(calls) + 1)
         IN  /\ strategist_prompt' =
                    <<[market_analysis |-> rec_market_analysis, data |-> rec_data]>>
             /\ calls' = Append(calls, Call("stock_strategist", "", resp))
             /\ IF out.failure # ""
                THEN /\ Abort(out.failure, screen)
                     /\ UNCHANGED stock_recommendations
                ELSE /\ stock_recommendations' = out.value
                     /\ pc' = "team_lead"
                     /\ UNCHANGED <<screen, failure>>
    /\ UNCHANGED <<input_symbols, company_names, tickers, valid_tickers, idx,
                   hist_log, performance_data, news, market_analysis,
                   company_analyses, final_report, rec_market_analysis, rec_data,
                   team_lead_prompt, touched, apiVars, cmpVars>>

\* team_lead.run at the end of get_final_investment_report.
TeamLead ==
    /\ pc = "team_lead"
    /\ \E resp \in AgentResponses :
         LET out == ContentOf(TRUE, resp, Len(calls) + 1)
         IN  /\ team_lead_prompt' =
                    <<[market_analysis |-> market_analysis,
                       company_analyses |-> company_analyses,
                       stock_recommendations |-> stock_recommendations]>>
             /\ calls' = Append(calls, Call("team_lead", "", resp))
             /\ IF out.failure # ""
                THEN /\ Abort(out.failure, screen)
                     /\ UNCHANGED final_report
                ELSE /\ final_report' = out.value
                     /\ pc' = "display"
                     /\ UNCHANGED <<screen, failure>>
    /\ UNCHANGED <<input_symbols, company_names, tickers, valid_tickers, idx,
                   hist_log, performance_data, news, market_analysis,
                   company_analyses, stock_recommendations, rec_market_analysis,
                   rec_data, strategist_prompt, touched, apiVars, cmpVars>>

\* The report is shown, then the chart of yf.download's prices, then the
\* closing note.
Display ==
    /\ pc = "display"
    /\ \E download \in {"prices", "raise"} :
         /\ touched' = touched \cup Range(valid_tickers)
         /\ IF download = "raise"
            THEN /\ pc' = "aborted"
                 /\ failure' = "download raised"
                 /\ screen' = [screen EXCEPT !.report = final_report,
                                             !.exception = TRUE]
            ELSE /\ pc' = "finished"
                 /\ failure' = failure
                 /\ screen' = [screen EXCEPT !.report = final_report,
                                             !.chart = TRUE, !.info = TRUE]
    /\ UNCHANGED <<input_symbols, company_names, tickers, valid_tickers, idx,
                   hist_log, performance_data, news, market_analysis,
                   company_analyses, stock_recommendations, final_report,
                   rec_market_analysis, rec_data, strategist_prompt,
                   team_lead_prompt, calls, apiVars, cmpVars>>

Next ==
    \/ Button
    \/ MarketAnalysis
    \/ CompanyAnalysis
    \/ Strategist
    \/ TeamLead
    \/ Display

Init == RunInit
Spec == Init /\ [][Next]_vars

\* ------------------------------------------------------ claims: C4 ----
\* The number of names in a comma-separated text: one more than its commas.
NameCount(text) == Cardinality({k \in 1..Len(text) : text[k] = ","}) + 1

LookupSucceeded(resp) ==
    resp.kind = "response" /\ resp.status_code = 200 /\ resp.data # <<>>

\* C4: get_tickers_from_api returns exactly one entry per name, in the
\* order of the names; entry k is the first match's symbol when lookup k
\* gave HTTP 200 with a non-empty match list, and None when it gave an empty
\* result, another status or raised, whatever the other lookups did.
C4_PositionalAlignment ==
    api_pc = "returned" =>
        /\ Len(api_tickers) = NameCount(api_company_names)
        /\ \A k \in 1..Len(api_tickers) :
              IF LookupSucceeded(api_responses[k])
              THEN api_tickers[k] = api_responses[k].data[1].symbol
              ELSE api_tickers[k] = None

\* Three names, the middle one failing: ["AAPL", None, "TSLA"].
C4_Witness ==
    /\ api_pc = "returned"
    /\ NameCount(api_company_names) = 3
    /\ api_responses[2].kind = "raise"
    /\ api_tickers = <<"AAPL", None, "TSLA">>

\* ------------------------------------------------- claims: C2, C3 ----
\* Whether the k-th history call came back with at least one row.
Fetched(k) == cmp_fetched[k].kind = "frame" /\ cmp_fetched[k].close # <<>>

\* First position of sym in cmp_symbols whose history call came back with rows.
FirstFetched(sym) ==
    CHOOSE k \in 1..Len(cmp_symbols) :
        /\ cmp_symbols[k] = sym /\ Fetched(k)
        /\ \A j \in 1..(k-1) : ~(cmp_symbols[j] = sym /\ Fetched(j))

\* The sum over i = 2..n of (close[i] - close[i-1]) / close[i-1].
RECURSIVE AdditiveSum(_)
AdditiveSum(close) ==
    IF Len(close) < 2 THEN Zero
    ELSE FracAdd(Frac(close[2] - close[1], close[1]), AdditiveSum(Tail(close)))

\* C3: the keys of compare_stocks' result are exactly the input tickers
\* whose history came back non-empty, each once, in input order; the value
\* of each is the additive sum of its day-over-day changes, and the series
\* [100, 110, 121] scores 1/5 = 0.20.
C3_KeysAndAdditiveScore ==
    cmp_pc = "returned" =>
        LET keys == DictKeys(cmp_data) IN
        /\ Range(keys) = {cmp_symbols[k] : k \in {j \in 1..Len(cmp_symbols) : Fetched(j)}}
        /\ \A a, b \in 1..Len(keys) :
              a < b => /\ keys[a] # keys[b]
                       /\ FirstFetched(keys[a]) < FirstFetched(keys[b])
        /\ \A k \in 1..Len(cmp_symbols) :
              Fetched(k) =>
                 /\ DictGet(cmp_data, cmp_symbols[k]) = AdditiveSum(cmp_fetched[k].close)
                 /\ cmp_fetched[k].close = <<100, 110, 121>>
                       => DictGet(cmp_data, cmp_symbols[k]) = <<1, 5>>

\* TSLA's history is empty and AAPL's is [100, 110, 121]: {AAPL: 0.20}.
C3_Witness ==
    /\ cmp_pc = "returned"
    /\ cmp_symbols = <<"TSLA", "AAPL">>
    /\ cmp_fetched = <<Frame(<<>>), Frame(<<100, 110, 121>>)>>
    /\ cmp_data = << <<"AAPL", <<1, 5>>>> >>

\* C2 as stated: a ticker whose history has fewer than 2 closing prices is
\* not a key of the result.
C2_FewerThanTwoExcluded ==
    cmp_pc = "returned" =>
        \A k \in 1..Len(cmp_symbols) :
            (cmp_fetched[k].kind = "frame" /\ Len(cmp_fetched[k].close) < 2)
                => ~DictHas(cmp_data, cmp_symbols[k])

\* C2 amended: a ticker whose history has no closing price is not a key of
\* the result; a ticker whose history has exactly one closing price is a
\* key, and its score is zero.
C2_EmptyExcludedSingleZero ==
    cmp_pc = "returned" =>
        \A k \in 1..Len(cmp_symbols) :
            /\ (cmp_fetched[k].kind = "frame" /\ cmp_fetched[k].close = <<>>)
                  => ~DictHas(cmp_data, cmp_symbols[k])
            /\ (cmp_fetched[k].kind = "frame" /\ Len(cmp_fetched[k].close) = 1)
                  => /\ DictHas(cmp_data, cmp_symbols[k])
                     /\ DictGet(cmp_data, cmp_symbols[k]) = Zero

\* AAPL's history is empty and TSLA's has one closing price: {TSLA: 0}.
C2_Witness ==
    /\ cmp_pc = "returned"
    /\ cmp_symbols = <<"AAPL", "TSLA">>
    /\ cmp_fetched = <<Frame(<<>>), Frame(<<110>>)>>
    /\ cmp_data = << <<"TSLA", Zero>> >>

\* ------------------------------------------ claims on the script run ----
CallsOf(agent) == Cardinality({k \in 1..Len(calls) : calls[k].agent = agent})

\* Whether one history call gave no closing price (an empty frame or an
\* exception).
NoHistory(hist) == hist.kind = "raise" \/ hist.close = <<>>

\* Whether every history call of the p-th compare_stocks call gave nothing.
PassEmpty(p) == \A k \in 1..Len(hist_log[p]) : NoHistory(hist_log[p][k])

AllHistoriesNonEmpty ==
    \A p \in 1..Len(hist_log) : \A k \in 1..Len(hist_log[p]) : ~NoHistory(hist_log[p][k])

AllHistoriesEmpty == \A p \in 1..Len(hist_log) : PassEmpty(p)

AllCallsSucceeded == \A k \in 1..Len(calls) : calls[k].response = "content"

\* get_final_investment_report has returned.
Returned == pc \in {"display", "finished"} /\ valid_tickers # <<>>

\* C1 as stated: in a run over n tickers with non-empty histories and
\* successful agent runs, the Company Researcher runs exactly n times, the
\* Stock Strategist once and the team lead once.
C1_ResearcherOncePerTicker ==
    (Returned /\ AllHistoriesNonEmpty /\ AllCallsSucceeded) =>
        /\ CallsOf("company_researcher") = Len(valid_tickers)
        /\ CallsOf("stock_strategist") = 1
        /\ CallsOf("team_lead") = 1

\* C5 as stated: no failure of a history, profile or news fetch ends the run.
C5_DataFailuresSwallowed ==
    pc = "aborted" => failure \notin {"profile fetch raised", "news fetch raised"}

\* The narrative that the k-th agent run, a market_analyst run, produced:
\* get_final_investment_report's if it is the first run of all, otherwise
\* get_stock_recommendations'.
AnalystResult(k) == IF k = 1 THEN market_analysis ELSE rec_market_analysis

\* C6: a falsy response of market_analyst.run becomes the fixed string "No
\* analysis report generated." and does not end the run; a falsy response of
\* any other agent ends the run at that call, and no report is returned or
\* shown.
C6_FalsyHandledOnlyAtMarketAnalyst ==
    \A k \in 1..Len(calls) :
        calls[k].response = "none" =>
            IF calls[k].agent = "market_analyst"
            THEN /\ AnalystResult(k) = NoAnalysisReport
                 /\ ~(k = Len(calls) /\ failure = "None has no content")
            ELSE /\ k = Len(calls)
                 /\ pc = "aborted"
                 /\ failure = "None has no content"
                 /\ final_report = Unset
                 /\ screen.report = Unset
                 /\ ~screen.chart

\* The first market_analyst run gave None and the run went on to the team
\* lead, whose None ended it.
C6_Witness ==
    /\ pc = "aborted"
    /\ Len(calls) >= 1
    /\ calls[1] = Call("market_analyst", "", "none")
    /\ market_analysis = NoAnalysisReport
    /\ calls[Len(calls)] = Call("team_lead", "", "none")

\* C7: a get_market_analysis call in which every history call gave an empty
\* frame or failed returns "No valid stock data found for the given
\* symbols." and runs no agent.
C7_EmptyPerformanceShortCircuits ==
    \A p \in 1..Len(hist_log) :
        PassEmpty(p) =>
            /\ (IF p = 1 THEN market_analysis ELSE rec_market_analysis) = NoValidStockData
            /\ \A k \in 1..Len(calls) :
                  calls[k].agent = "market_analyst" => IF p = 1 THEN k # 1 ELSE k = 1

\* The second get_market_analysis call of a run found no history (one call
\* failed, one gave an empty frame) after the first one had found some.
C7_Witness ==
    /\ pc = "rec_company"
    /\ Len(hist_log) = 2
    /\ ~PassEmpty(1)
    /\ hist_log[2] = <<HistRaised, Frame(<<>>)>>
    /\ rec_market_analysis = NoValidStockData
    /\ CallsOf("market_analyst") = 1

\* C8: when every resolved entry is None, the button press ends with the
\* "No valid tickers found" warning, no history, profile or news fetch, no
\* agent run, no report and no chart; and None is never among the symbols of
\* a run nor handed to yfinance or an agent.
C8_NoValidTickersNoPipeline ==
    /\ (pc # "idle" /\ \A k \in 1..Len(tickers) : tickers[k] = None) =>
          /\ pc = "finished"
          /\ screen.warning = "No valid tickers found for the given company names."
          /\ hist_log = <<>>
          /\ touched = {}
          /\ calls = <<>>
          /\ screen.report = Unset
          /\ ~screen.chart
    /\ None \notin Range(valid_tickers)
    /\ None \notin touched
    /\ \A k \in 1..Len(calls) : calls[k].symbol # None

\* Two names, neither resolved.
C8_Witness ==
    /\ pc = "finished"
    /\ tickers = <<None, None>>
    /\ valid_tickers = <<>>
    /\ screen.warning = "No valid tickers found for the given company names."

\* C9 as stated: the market analysis and the per-ticker company analyses in
\* the Stock Strategist's prompt are the ones in the team lead's prompt.
C9_SameNarrativesDownstream ==
    team_lead_prompt # <<>> =>
        LET s == strategist_prompt[1]
            t == team_lead_prompt[1]
        IN  /\ s.market_analysis = t.market_analysis
            /\ \A k \in 1..Len(valid_tickers) :
                  DictGet(s.data, valid_tickers[k]) = t.company_analyses[k]

\* The agent runs of a whole run in which get_market_analysis never ran
\* market_analyst: the researcher per ticker, the researcher per ticker
\* again, the strategist, the team lead.
ResearcherRuns == [k \in 1..Len(valid_tickers) |-> <<"company_researcher", valid_tickers[k]>>]
ExpectedRuns ==
    ResearcherRuns \o ResearcherRuns \o << <<"stock_strategist", "">>, <<"team_lead", "">> >>
RunsSoFar == [k \in 1..Len(calls) |-> <<calls[k].agent, calls[k].symbol>>]
IsPrefix(a, b) == Len(a) <= Len(b) /\ SubSeq(b, 1, Len(a)) = a

\* C10: when every history call of the run gave nothing, the empty
\* performance dict ends nothing: the fixed "No valid stock data" message is
\* the market analysis, the agents run in the order researcher per ticker
\* (twice over), strategist, team lead, and once the report is returned
\* every ticker has its company analysis in both prompts.
C10_EmptyPerformanceDoesNotHalt ==
    (Len(hist_log) >= 1 /\ AllHistoriesEmpty) =>
        /\ market_analysis = NoValidStockData
        /\ failure \in {"", "profile fetch raised", "news fetch raised",
                        "agent raised", "None has no content", "download raised"}
        /\ IsPrefix(RunsSoFar, ExpectedRuns)
        /\ Returned =>
              /\ RunsSoFar = ExpectedRuns
              /\ strategist_prompt[1].market_analysis = NoValidStockData
              /\ team_lead_prompt[1].market_analysis = NoValidStockData
              /\ Len(team_lead_prompt[1].company_analyses) = Len(valid_tickers)
              /\ \A k \in 1..Len(valid_tickers) :
                    DictHas(strategist_prompt[1].data, valid_tickers[k])

\* Two tickers, no history for either in either pass, and the report shown.
C10_Witness ==
    /\ pc = "finished"
    /\ valid_tickers = <<"AAPL", "TSLA">>
    /\ Len(hist_log) = 2
    /\ AllHistoriesEmpty
    /\ performance_data = <<>>
    /\ CallsOf("company_researcher") = 4
    /\ screen.report = Content(6)

=============================================================================
